---- MODULE Spec2Model ----
(***************************************************************************)
(* Caching and staleness detection of the MySQL MCP server:                *)
(*   schema/cache.py      get_schema, query_with_cache, refresh_schema     *)
(*   schema/generator.py  generate_database_schema,                        *)
(*                        check_schema_needs_refresh                       *)
(*   utils/helpers.py     save_json_file, load_json_file, create_hash      *)
(* Texts (SQL, JSON, file contents) are sequences of one-character         *)
(* strings.  Times are seconds on one clock.                               *)
(***************************************************************************)
EXTENDS Integers, Sequences, FiniteSets, TLC

\* ------------------------------------------------------------------ bounds
MaxTicks == 1        \* clock advances per behaviour
MaxCalls == 2        \* get_schema/refresh_schema calls served per behaviour
MaxQueries == 3      \* query_with_cache calls served per behaviour
MaxTextCalls == 2    \* query_with_cache calls per behaviour over the text inputs
MaxTtlTicks == 2     \* clock advances per behaviour that follows one entry's lifetime
MaxTtlCalls == 3     \* calls per behaviour that follows one entry's lifetime
MaxEvictCalls == 4   \* query_with_cache calls per behaviour that fill the cache
MaxToolCalls == 2    \* query_mysql tool calls served per behaviour
MaxGenerations == 1  \* runs of the generator followed step by step per behaviour
MaxSaves == 2        \* regenerations one caller starts per behaviour
ChunkSize == 4       \* characters per write() of the buffered temp file (scaled)
QueryCacheSize == 2  \* maxsize of query_cache in the model (QUERY_CACHE_SIZE, scaled)

\* --------------------------------------------------------- program constants
SCHEMA_CACHE_TTL == 3600
QUERY_CACHE_TTL == 300
SchemaCacheSize == 1

\* clock steps: the step that lands just before a TTL ends and the one that
\* ends it
SchemaTickSteps == {SCHEMA_CACHE_TTL - 1, SCHEMA_CACHE_TTL}
QueryTickSteps == {1, QUERY_CACHE_TTL - 1, QUERY_CACHE_TTL}
TtlTickSteps == {1, QUERY_CACHE_TTL - 1, SCHEMA_CACHE_TTL - 1}

\* the table counts the database takes
TableCounts == {0, 1}

\* -------------------------------------------------------------------- text
DigitChars == <<"0", "1", "2", "3", "4", "5", "6", "7", "8", "9">>
LowerChars == <<"a", "b", "c", "d", "e", "f", "g", "h", "i", "j", "k", "l", "m",
                "n", "o", "p", "q", "r", "s", "t", "u", "v", "w", "x", "y", "z">>
UpperChars == <<"A", "B", "C", "D", "E", "F", "G", "H", "I", "J", "K", "L", "M",
                "N", "O", "P", "Q", "R", "S", "T", "U", "V", "W", "X", "Y", "Z">>

IsDigit(c) == \E i \in 1..10 : DigitChars[i] = c
DigitVal(c) == (CHOOSE i \in 1..10 : DigitChars[i] = c) - 1

\* str(n) / f"{n}" of a Python int
RECURSIVE Str(_)
Str(n) ==
    IF n < 0 THEN <<"-">> \o Str(0 - n)
    ELSE IF n < 10 THEN <<DigitChars[n + 1]>>
    ELSE Str(n \div 10) \o <<DigitChars[(n % 10) + 1]>>

\* int(s) of a digit string; defined where IsNumber(s)
IsNumber(s) == Len(s) > 0 /\ \A i \in 1..Len(s) : IsDigit(s[i])
RECURSIVE ParseInt(_)
ParseInt(s) ==
    IF Len(s) = 0 THEN 0
    ELSE 10 * ParseInt(SubSeq(s, 1, Len(s) - 1)) + DigitVal(s[Len(s)])

\* str.upper()
ToUpper ==
    [c \in {LowerChars[i] : i \in 1..26} |-> UpperChars[CHOOSE i \in 1..26 : LowerChars[i] = c]]
UpperChar(c) == IF c \in DOMAIN ToUpper THEN ToUpper[c] ELSE c
StrUpper(s) == [i \in 1..Len(s) |-> UpperChar(s[i])]

\* str.strip()
IsSpace(c) == c \in {" ", "\n", "\t"}
RECURSIVE LStrip(_)
LStrip(s) == IF Len(s) > 0 /\ IsSpace(s[1]) THEN LStrip(Tail(s)) ELSE s
RECURSIVE RStrip(_)
RStrip(s) ==
    IF Len(s) > 0 /\ IsSpace(s[Len(s)]) THEN RStrip(SubSeq(s, 1, Len(s) - 1)) ELSE s
StrStrip(s) == RStrip(LStrip(s))

\* str.startswith(p)
StartsWith(s, p) == Len(s) >= Len(p) /\ SubSeq(s, 1, Len(p)) = p

\* p in s : left-to-right scan for the substring
RECURSIVE StrContains(_, _)
StrContains(s, p) ==
    IF Len(s) < Len(p) THEN FALSE
    ELSE IF StartsWith(s, p) THEN TRUE
    ELSE StrContains(Tail(s), p)

\* s.split(sep) for a one-character separator
RECURSIVE StrSplit(_, _)
StrSplit(s, sep) ==
    IF \A i \in 1..Len(s) : s[i] # sep THEN <<s>>
    ELSE LET k == CHOOSE i \in 1..Len(s) : s[i] = sep /\ \A j \in 1..(i - 1) : s[j] # sep
         IN <<SubSeq(s, 1, k - 1)>> \o StrSplit(SubSeq(s, k + 1, Len(s)), sep)

\* -------------------------------------------------------------------- JSON
\* A document is rendered as {<key><value>,<key><value>,...} with
\* one-character keys: g = metadata.generated_at, n = metadata.total_tables,
\* e = error, s = status.

\* json.dumps(schema_data, indent=2, default=str) / json.dump(data, f, ...)
JsonDumps(doc) ==
    <<"{", "g">> \o Str(doc.generated_at) \o <<",", "n">> \o Str(doc.total_tables) \o <<"}">>

\* json.dumps({"error": str(e)}, indent=2)
ErrorDoc(msg) == <<"{", "e">> \o msg \o <<"}">>

\* json.dumps(result) / json.dumps(error_result) of refresh_schema
StatusOk(doc) ==
    <<"{", "s", "o", "k", ",", "g">> \o Str(doc.generated_at)
        \o <<",", "n">> \o Str(doc.total_tables) \o <<"}">>
StatusError(msg) == <<"{", "s", "e", "r", "r", ",", "m">> \o msg \o <<"}">>

\* json.load: the text is a document iff it is one brace pair around
\* comma-separated key/value fields
JsonBody(text) == SubSeq(text, 2, Len(text) - 1)
JsonFields(text) == IF Len(text) = 2 THEN <<>> ELSE StrSplit(JsonBody(text), ",")
FieldOk(fld) ==
    /\ Len(fld) >= 2
    /\ fld[1] \in {"g", "n", "e", "s", "m"}
    /\ \A i \in 1..Len(fld) : fld[i] \notin {"{", "}", ",", "_"}
JsonOk(text) ==
    /\ Len(text) >= 2
    /\ text[1] = "{"
    /\ text[Len(text)] = "}"
    /\ \A i \in 1..Len(JsonFields(text)) : FieldOk(JsonFields(text)[i])

\* dict.get(key): the set of values stored under key (empty when absent)
JsonGet(text, key) ==
    {Tail(JsonFields(text)[i]) : i \in {j \in 1..Len(JsonFields(text)) : JsonFields(text)[j][1] = key}}

\* ------------------------------------------------------------------- files
SCHEMA_FILE == "resources/database_schema.json"
TEMP_FILE == "resources/database_schema.json.tmp"
DETECTOR_FILE == "database_schema.json"
Paths == {SCHEMA_FILE, TEMP_FILE, DETECTOR_FILE}

NoFile == [exists |-> FALSE, data |-> <<>>]
FileOf(text) == [exists |-> TRUE, data |-> text]

\* load_json_file: None for a missing file, the document for a well-formed
\* one, an exception otherwise
LoadJsonFile(f) ==
    IF ~f.exists THEN [raised |-> FALSE, none |-> TRUE, text |-> <<>>]
    ELSE IF JsonOk(f.data) THEN [raised |-> FALSE, none |-> FALSE, text |-> f.data]
    ELSE [raised |-> TRUE, none |-> FALSE, text |-> <<>>]

\* save_json_file run to completion by one caller: write file_path.tmp, then
\* rename it over file_path.  fault "write" fails inside json.dump, fault
\* "rename" fails in Path.rename.
SaveJsonFile(fs, text, path, tmp, fault) ==
    IF fault = "write"
    THEN [raised |-> TRUE, msg |-> <<"w">>,
          fs |-> [fs EXCEPT ![tmp] = FileOf(SubSeq(text, 1, Len(text) \div 2))]]
    ELSE IF fault = "rename"
    THEN [raised |-> TRUE, msg |-> <<"r">>, fs |-> [fs EXCEPT ![tmp] = FileOf(text)]]
    ELSE [raised |-> FALSE, msg |-> <<>>,
          fs |-> [fs EXCEPT ![tmp] = NoFile, ![path] = FileOf(text)]]

\* ---------------------------------------------------------------- TTLCache
\* A cache is the sequence of its entries [key, value, expires], least
\* recently used first.
EmptyCache == <<>>
CacheKeys(c) == {c[i].key : i \in 1..Len(c)}
CacheIndex(c, k) == CHOOSE i \in 1..Len(c) : c[i].key = k

\* TTLCache.expire(time)
TTLExpire(c, t) == SelectSeq(c, LAMBDA e : t < e.expires)

\* key in cache
TTLContains_WrongExpiry(c, k, t) ==
    \E i \in 1..Len(c) : c[i].key = k /\ c[i].expires < t
TTLContains(c, k, t) == \E i \in 1..Len(c) : c[i].key = k /\ t < c[i].expires

\* everything but position i
DropAt(c, i) == SubSeq(c, 1, i - 1) \o SubSeq(c, i + 1, Len(c))

\* cache[key]: the entry moves to the most recently used end; an expired or
\* missing key is a KeyError
TTLGet_Extends(c, k, t) ==
    IF k \notin CacheKeys(c) THEN [raised |-> TRUE, value |-> <<>>, cache |-> c]
    ELSE LET i == CacheIndex(c, k)
             moved == DropAt(c, i) \o <<[c[i] EXCEPT !.expires = t + QUERY_CACHE_TTL]>>
         IN IF t < c[i].expires
            THEN [raised |-> FALSE, value |-> c[i].value, cache |-> moved]
            ELSE [raised |-> TRUE, value |-> <<>>, cache |-> moved]
TTLGet(c, k, t) ==
    IF k \notin CacheKeys(c) THEN [raised |-> TRUE, value |-> <<>>, cache |-> c]
    ELSE LET i == CacheIndex(c, k)
             moved == DropAt(c, i) \o <<c[i]>>
         IN IF t < c[i].expires
            THEN [raised |-> FALSE, value |-> c[i].value, cache |-> moved]
            ELSE [raised |-> TRUE, value |-> <<>>, cache |-> moved]

\* cache[key] = value: expire, evict least recently used entries while full,
\* store, and restart the entry's lifetime
Evict_Newest(c, maxsize) == IF Len(c) + 1 > maxsize THEN SubSeq(c, 1, maxsize - 1) ELSE c
RECURSIVE Evict(_, _)
Evict(c, maxsize) == IF Len(c) + 1 > maxsize THEN Evict(Tail(c), maxsize) ELSE c
TTLSet_Unbounded(c, k, v, t, maxsize, ttl) ==
    LET live == TTLExpire(c, t)
        entry == [key |-> k, value |-> v, expires |-> t + ttl]
    IN IF k \in CacheKeys(live)
       THEN DropAt(live, CacheIndex(live, k)) \o <<entry>>
       ELSE live \o <<entry>>
TTLSet(c, k, v, t, maxsize, ttl) ==
    LET live == TTLExpire(c, t)
        entry == [key |-> k, value |-> v, expires |-> t + ttl]
    IN IF k \in CacheKeys(live)
       THEN DropAt(live, CacheIndex(live, k)) \o <<entry>>
       ELSE Evict(live, maxsize) \o <<entry>>

\* ---------------------------------------------------------------- database
\* the staleness detector: TRUE = refresh needed
DetectorBody(up, lastUpdate, fs, fault) ==
    LET Raise == [raised |-> TRUE, value |-> FALSE]
        Return(v) == [raised |-> FALSE, value |-> v]
        loaded == LoadJsonFile(fs[DETECTOR_FILE])
        stamp == JsonGet(loaded.text, "g")
    IN IF ~up \/ fault = "det" THEN Raise
       ELSE IF loaded.raised THEN Raise
       ELSE IF loaded.none \/ JsonFields(loaded.text) = <<>> THEN Return(TRUE)
       ELSE IF stamp = {} THEN Return(TRUE)
       ELSE IF \E g \in stamp : ~IsNumber(g) THEN Raise
       ELSE Return(\E u \in lastUpdate : \E g \in stamp : u > ParseInt(g))

\* "except Exception as e: ...; return True"
DetectorExcept_Reraise == [raised |-> TRUE, value |-> FALSE]
DetectorExcept == [raised |-> FALSE, value |-> TRUE]

NeedsRefreshResult(up, lastUpdate, fs, fault) ==
    LET body == DetectorBody(up, lastUpdate, fs, fault)
    IN IF body.raised THEN DetectorExcept ELSE body

\* the value get_schema() receives
CheckSchemaNeedsRefresh(up, lastUpdate, fs, fault) ==
    NeedsRefreshResult(up, lastUpdate, fs, fault).value

\* the generator, run to completion
GenerateDatabaseSchema_Partial(up, tables, t, fault) ==
    [raised |-> FALSE, msg |-> <<>>,
     doc |-> [generated_at |-> t, total_tables |-> IF up /\ fault # "gen" THEN tables ELSE 0]]
GenerateDatabaseSchema(up, tables, t, fault) ==
    IF ~up THEN [raised |-> TRUE, msg |-> <<"c">>, doc |-> [generated_at |-> 0, total_tables |-> 0]]
    ELSE IF fault = "gen"
    THEN [raised |-> TRUE, msg |-> <<"q">>, doc |-> [generated_at |-> 0, total_tables |-> 0]]
    ELSE [raised |-> FALSE, msg |-> <<>>, doc |-> [generated_at |-> t, total_tables |-> tables]]

\* the rows a statement yields on the current database, serialized by
\* json.dumps(results, indent=2, default=str)
ExecuteQuery(text, tables) == <<"[">> \o text \o <<"@">> \o Str(tables) \o <<"]">>

\* ------------------------------------------------------------ query texts
SELECT == <<"S", "E", "L", "E", "C", "T">>
LIMIT == <<"L", "I", "M", "I", "T">>
SqlEmpty == <<>>
SqlBlank == <<" ", "\n">>
SqlSelect == <<"S", "E", "L", "E", "C", "T", " ", "a">>
SqlLower == <<" ", "s", "e", "l", "e", "c", "t", " ", "a">>
SqlLimited == <<"S", "E", "L", "E", "C", "T", " ", "a", " ", "l", "i", "m", "i", "t", " ", "2">>
SqlLimitIdent == <<"S", "E", "L", "E", "C", "T", " ", "l", "i", "m", "i", "t", "s">>
SqlUpdate == <<"U", "P", "D", "A", "T", "E", " ", "t">>
SqlNotFirst == <<"x", " ", "S", "E", "L", "E", "C", "T">>

\* the calls made against the cache under a moving clock: (sql, limit)
QueryCalls == { <<SqlSelect, 5>>, <<SqlSelect, 10>>, <<SqlLimited, 5>>, <<SqlUpdate, 5>> }

\* distinct valid calls, more than the cache holds
EvictCalls == { <<SqlSelect, 5>>, <<SqlSelect, 10>>, <<SqlLimited, 5>>, <<SqlLimited, 10>> }

\* the calls made to exercise validation and LIMIT injection
Sqls == {SqlEmpty, SqlBlank, SqlSelect, SqlLower, SqlLimited, SqlLimitIdent, SqlUpdate,
         SqlNotFirst}
Limits == {0, 5, 10, 0 - 1}

\* create_hash: MD5 taken as collision-free on the texts hashed
CreateHash(text) == <<"#">> \o text

\* "Add LIMIT if not present and limit is specified"
FinalQuery_CaseSensitive(sql, limit) ==
    IF limit # 0 /\ ~StrContains(sql, LIMIT)
    THEN sql \o <<" ">> \o LIMIT \o <<" ">> \o Str(limit)
    ELSE sql
FinalQuery(sql, limit) ==
    IF limit # 0 /\ ~StrContains(StrUpper(sql), LIMIT)
    THEN sql \o <<" ">> \o LIMIT \o <<" ">> \o Str(limit)
    ELSE sql

\* cache_key = create_hash(f"{query}:{limit}")
CacheKey_QueryOnly(sql, limit) == CreateHash(FinalQuery(sql, limit))
CacheKey(sql, limit) == CreateHash(FinalQuery(sql, limit) \o <<":">> \o Str(limit))

\* the two validation checks of query_with_cache
QueryIsEmpty(sql) == StrStrip(sql) = <<>>
QueryIsSelect_Anywhere(sql) == StrContains(StrUpper(sql), SELECT)
QueryIsSelect(sql) == StartsWith(StrStrip(StrUpper(sql)), SELECT)

\* ------------------------------------------------------------------- state
VARIABLES
    now,                    \* the clock
    ticks,                  \* clock advances so far
    ncalls,                 \* calls served so far
    dbUp,                   \* the database accepts connections
    dbTables,               \* number of tables in the database
    dbLastUpdate,           \* MAX(UPDATE_TIME): {} for NULL, else {time}
    files,                  \* path -> file
    schema_metadata_cache,  \* TTLCache(maxsize=1, ttl=SCHEMA_CACHE_TTL)
    query_cache,            \* TTLCache(maxsize=QUERY_CACHE_SIZE, ttl=QUERY_CACHE_TTL)
    inserted,               \* history: per key its last insertion (value, time, call
                            \* number, executed text, limit) and the call number of
                            \* its last use
    last,                   \* the last call: its inputs, pre-state and outcome
    dir,                    \* stepwise saves: path -> inode number, 0 when absent
    inodes,                 \* stepwise saves: inode number -> contents
    wr,                     \* stepwise saves: caller -> its position and file handle
    generated,              \* history: the texts generated or found on disk
    catalog,                \* stepwise generation: the tables and foreign keys of the database
    generation,             \* stepwise generation: the generator's position and its schema_data
    pending,                \* stepwise query: the call between its presence check and its read
    open_connections        \* connections opened and not closed

savevars == <<dir, inodes, wr, generated>>
callvars == <<now, ticks, ncalls, dbUp, dbTables, dbLastUpdate, files,
              schema_metadata_cache, query_cache, inserted, last>>
genvars == <<catalog, generation>>
stepvars == <<pending>>
connvars == <<open_connections>>
vars == <<callvars, savevars, genvars, stepvars, connvars>>

Writers == {1, 2}
Inos == {1, 2, 3}
NoWriter ==
    [pc |-> "off", text |-> <<>>, before |-> NoFile, fd |-> 0, pos |-> 0, saves |-> 0]

SchemaFresh == <<"s", "c", "h", "e", "m", "a", "_", "f", "r", "e", "s", "h">>
FlagValue == <<"T", "r", "u", "e">>
\* 'schema_fresh' in schema_metadata_cache
FlagLive_NoExpiry == SchemaFresh \in CacheKeys(schema_metadata_cache)
FlagLive == TTLContains(schema_metadata_cache, SchemaFresh, now)

Faults == {"none", "read", "det", "gen", "write", "rename", "exec"}

\* connection = get_db_connection(): the connections it opens, one, or none
\* when pymysql.connect raises
GetDbConnection(up) == IF up THEN 1 ELSE 0
\* "finally: if 'connection' in locals(): connection.close()": the connections
\* it closes when the function has bound that many
QueryFinally_Skipped(bound) == 0
QueryFinally(bound) == IF bound > 0 THEN 1 ELSE 0
GeneratorFinally(bound) == IF bound > 0 THEN 1 ELSE 0
DetectorFinally(bound) == IF bound > 0 THEN 1 ELSE 0
\* the connections a run of each function leaves open
QueryLeavesOpen(up) == GetDbConnection(up) - QueryFinally(GetDbConnection(up))
GeneratorLeavesOpen(up) == GetDbConnection(up) - GeneratorFinally(GetDbConnection(up))
DetectorLeavesOpen(up) == GetDbConnection(up) - DetectorFinally(GetDbConnection(up))

\* what a call found when it started
Pre ==
    [ flagLive |-> FlagLive,
      file |-> files[SCHEMA_FILE],
      dbUp |-> dbUp,
      dbLastUpdate |-> dbLastUpdate,
      afterDocument |-> (last.op = "get_schema" /\ last.kind = "document") ]

NoPre ==
    [ flagLive |-> FALSE, file |-> NoFile, dbUp |-> FALSE, dbLastUpdate |-> {},
      afterDocument |-> FALSE ]

NoCall ==
    [ op |-> "none", fault |-> "none", outcome |-> "none", kind |-> "none",
      result |-> <<>>, calls |-> <<>>, executed |-> <<>>, cacheOps |-> <<>>,
      sql |-> <<>>, limit |-> 0, pre |-> NoPre ]

\* the database as the generator's statements see it: its tables, and the
\* rows of information_schema.KEY_COLUMN_USAGE with a referenced table
EmptyCatalog == [tables |-> {}, fks |-> {}]
\* the generator between two runs
\* (enumerated_at and fetched_at are history: the instants of SHOW TABLES and
\* of the per-table statements)
GenIdle ==
    [pc |-> "idle", order |-> <<>>, todo |-> <<>>, tables |-> <<>>, generated_at |-> 0,
     total_tables |-> 0, runs |-> 0, enumerated_at |-> 0, fetched_at |-> {}]

\* no query call is between its presence check and its read
NoPending == [pc |-> "idle", sql |-> <<>>, limit |-> 0]

\* documents a program start can find on disk
OldDoc == [generated_at |-> 2, total_tables |-> 1]
StartTime == OldDoc.generated_at + 1
InitialSchemaFiles == {NoFile, FileOf(JsonDumps(OldDoc))}
InitialDetectorFiles ==
    { NoFile,
      FileOf(JsonDumps(OldDoc)),
      FileOf(<<"{", "n", "1", "}">>),
      FileOf(<<"{", "g", "?", ",", "n", "1", "}">>),
      FileOf(<<"{", "g", "2">>) }

Init ==
    /\ now = StartTime
    /\ ticks = 0
    /\ ncalls = 0
    /\ dbUp = TRUE
    /\ dbTables = 1
    /\ dbLastUpdate \in {{}, {1}, {2}, {3}}
    /\ \E sf \in InitialSchemaFiles : \E df \in InitialDetectorFiles :
          files = [p \in Paths |->
                     IF p = SCHEMA_FILE THEN sf ELSE IF p = DETECTOR_FILE THEN df ELSE NoFile]
    /\ schema_metadata_cache = EmptyCache
    /\ query_cache = EmptyCache
    /\ inserted = {}
    /\ last = NoCall
    /\ dir = [p \in {SCHEMA_FILE, TEMP_FILE} |-> 0]
    /\ inodes = [i \in Inos |-> <<>>]
    /\ wr = [w \in Writers |-> NoWriter]
    /\ generated = {}
    /\ catalog = EmptyCatalog
    /\ generation = GenIdle
    /\ pending = NoPending
    /\ open_connections = 0

\* ------------------------------------------------------------- environment
Advance(d) ==
    /\ now' = now + d
    /\ ticks' = ticks + 1
    /\ last' = NoCall
    /\ UNCHANGED <<ncalls, dbUp, dbTables, dbLastUpdate, files, schema_metadata_cache,
                   query_cache, inserted, savevars, genvars, stepvars, connvars>>

Tick(d) == ticks < MaxTicks /\ Advance(d)
TtlTick(d) == ticks < MaxTtlTicks /\ Advance(d)

\* a statement of some other client changes the database; engines that do
\* not track UPDATE_TIME leave it as it was
DbMutate(n, tracked) ==
    /\ dbUp
    /\ n # dbTables \/ tracked
    /\ dbTables' = n
    /\ dbLastUpdate' = IF tracked THEN {now} ELSE dbLastUpdate
    /\ last' = NoCall
    /\ UNCHANGED <<now, ticks, ncalls, dbUp, files, schema_metadata_cache, query_cache,
                   inserted, savevars, genvars, stepvars, connvars>>

DbToggle ==
    /\ dbUp' = ~dbUp
    /\ last' = NoCall
    /\ UNCHANGED <<now, ticks, ncalls, dbTables, dbLastUpdate, files,
                   schema_metadata_cache, query_cache, inserted, savevars, genvars, stepvars, connvars>>

\* ---------------------------------------------------------------- get_schema
\* schema_metadata_cache['schema_fresh'] = True
SetFlag_Forgotten(c, t) == c
SetFlag(c, t) == TTLSet(c, SchemaFresh, FlagValue, t, SchemaCacheSize, SCHEMA_CACHE_TTL)
\* history of the flag's last insertion
FlagInserted ==
    {r \in inserted : r.key # SchemaFresh}
        \cup {[key |-> SchemaFresh, value |-> FlagValue, at |-> now,
                seq |-> ncalls + 1, used |-> ncalls + 1, query |-> <<>>, limit |-> 0]}

\* save_schema_to_file: save_json_file(schema_data, SCHEMA_FILE), re-raising
SaveSchemaToFile_Skipped(fs, text, fault) == [raised |-> FALSE, msg |-> <<>>, fs |-> fs]
SaveSchemaToFile(fs, text, fault) == SaveJsonFile(fs, text, SCHEMA_FILE, TEMP_FILE, fault)

\* with open(SCHEMA_FILE) as f: return f.read()
ReadSchemaFile(fs, fault) ==
    IF fault = "read" \/ ~fs[SCHEMA_FILE].exists
    THEN [raised |-> TRUE, msg |-> <<"o">>, text |-> <<>>]
    ELSE [raised |-> FALSE, msg |-> <<>>, text |-> fs[SCHEMA_FILE].data]

\* "except Exception as e: return json.dumps({"error": str(e)}, indent=2)"
GetSchemaExcept_Reraise(msg) == [outcome |-> "raised", kind |-> "error", result |-> msg]
GetSchemaExcept(msg) == [outcome |-> "ok", kind |-> "error", result |-> ErrorDoc(msg)]
GetSchemaReturn(text) == [outcome |-> "ok", kind |-> "document", result |-> text]
\* the query cache as get_schema() leaves it: the function names only
\* schema_metadata_cache
SchemaPathQueryCache_Cleared(c) == EmptyCache
SchemaPathQueryCache(c) == c
\* the files when the except clause is left: it writes none
FilesAfterExcept_Persisted(fs, msg) == [fs EXCEPT ![SCHEMA_FILE] = FileOf(ErrorDoc(msg))]
FilesAfterExcept(fs, msg) == fs

Called(op, fault, ret, calls, executed, cacheOps, sql, limit) ==
    [ op |-> op, fault |-> fault, outcome |-> ret.outcome, kind |-> ret.kind,
      result |-> ret.result, calls |-> calls, executed |-> executed,
      cacheOps |-> cacheOps, sql |-> sql, limit |-> limit, pre |-> Pre ]

\* "if os.path.exists(SCHEMA_FILE): if 'schema_fresh' in schema_metadata_cache:"
FastPath_Never(exists, flag) == FALSE
FastPath(exists, flag) == exists /\ flag

GetSchema(f) ==
    LET exists == files[SCHEMA_FILE].exists
        fast == FastPath(exists, FlagLive)
        needs == CheckSchemaNeedsRefresh(dbUp, dbLastUpdate, files, f)
        fresh == exists /\ ~fast /\ ~needs
        detCalls == IF exists /\ ~fast THEN <<"detector">> ELSE <<>>
        rd == ReadSchemaFile(files, f)
        gen == GenerateDatabaseSchema(dbUp, dbTables, now, f)
        text == JsonDumps(gen.doc)
        sv == SaveSchemaToFile(files, text, f)
        Done(ret, calls) ==
            last' = Called("get_schema", f, ret, calls, <<>>, <<>>, <<>>, 0)
    IN /\ ncalls' = ncalls + 1
       /\ f \in {"none", "read", "det", "gen", "write", "rename"}
       /\ IF fast
          THEN /\ UNCHANGED <<files, schema_metadata_cache, inserted>>
               /\ Done(IF rd.raised THEN GetSchemaExcept(rd.msg) ELSE GetSchemaReturn(rd.text),
                       <<>>)
          ELSE IF fresh
          THEN /\ schema_metadata_cache' = SetFlag(schema_metadata_cache, now)
               /\ inserted' = FlagInserted
               /\ UNCHANGED files
               /\ Done(IF rd.raised THEN GetSchemaExcept(rd.msg) ELSE GetSchemaReturn(rd.text),
                       detCalls)
          ELSE IF gen.raised
          THEN /\ files' = FilesAfterExcept(files, gen.msg)
               /\ UNCHANGED <<schema_metadata_cache, inserted>>
               /\ Done(GetSchemaExcept(gen.msg), detCalls \o <<"generator">>)
          ELSE IF sv.raised
          THEN /\ files' = FilesAfterExcept(sv.fs, sv.msg)
               /\ UNCHANGED <<schema_metadata_cache, inserted>>
               /\ Done(GetSchemaExcept(sv.msg), detCalls \o <<"generator">>)
          ELSE /\ files' = sv.fs
               /\ schema_metadata_cache' = SetFlag(schema_metadata_cache, now)
               /\ inserted' = FlagInserted
               /\ Done(GetSchemaReturn(text), detCalls \o <<"generator">>)
       /\ query_cache' = SchemaPathQueryCache(query_cache)
       /\ open_connections' = open_connections
                               + (IF exists /\ ~fast THEN DetectorLeavesOpen(dbUp) ELSE 0)
                               + (IF ~fast /\ ~fresh THEN GeneratorLeavesOpen(dbUp) ELSE 0)
       /\ UNCHANGED <<now, ticks, dbUp, dbTables, dbLastUpdate, savevars, genvars, stepvars>>

\* -------------------------------------------------- check_schema_needs_refresh
\* str(bool)
BoolText(b) == IF b THEN <<"T", "r", "u", "e">> ELSE <<"F", "a", "l", "s", "e">>

\* the detector called on its own
NeedsRefresh(f) ==
    LET res == NeedsRefreshResult(dbUp, dbLastUpdate, files, f)
        ret == [outcome |-> IF res.raised THEN "raised" ELSE "ok", kind |-> "bool",
                result |-> BoolText(res.value)]
    IN /\ ncalls' = ncalls + 1
       /\ f \in {"none", "det"}
       /\ last' = Called("needs_refresh", f, ret, <<"detector">>, <<>>, <<>>, <<>>, 0)
       /\ open_connections' = open_connections + DetectorLeavesOpen(dbUp)
       /\ UNCHANGED <<now, ticks, dbUp, dbTables, dbLastUpdate, files, schema_metadata_cache,
                      query_cache, inserted, savevars, genvars, stepvars>>

\* ------------------------------------------------------------ refresh_schema
\* "except Exception as e: ... return json.dumps(error_result, indent=2)"
RefreshExcept_Reraise(msg) == [outcome |-> "raised", kind |-> "error", result |-> msg]
RefreshExcept(msg) == [outcome |-> "ok", kind |-> "error", result |-> StatusError(msg)]
RefreshReturn(doc) == [outcome |-> "ok", kind |-> "status", result |-> StatusOk(doc)]

\* schema_metadata_cache.clear(): of the two module-level caches only the
\* metadata cache is emptied
MetadataCacheClear_Noop(caches) == caches
MetadataCacheClear_Both(caches) == [meta |-> EmptyCache, query |-> EmptyCache]
MetadataCacheClear(caches) == [meta |-> EmptyCache, query |-> caches.query]

RefreshSchema(f) ==
    LET cleared == MetadataCacheClear([meta |-> schema_metadata_cache, query |-> query_cache])
        gen == GenerateDatabaseSchema(dbUp, dbTables, now, f)
        text == JsonDumps(gen.doc)
        sv == SaveSchemaToFile(files, text, f)
        Done(ret) ==
            last' = Called("refresh", f, ret, <<"generator">>, <<>>, <<>>, <<>>, 0)
    IN /\ ncalls' = ncalls + 1
       /\ f \in {"none", "gen", "write", "rename"}
       /\ query_cache' = cleared.query
       /\ IF gen.raised
          THEN /\ UNCHANGED <<files, inserted>>
               /\ schema_metadata_cache' = cleared.meta
               /\ Done(RefreshExcept(gen.msg))
          ELSE IF sv.raised
          THEN /\ files' = sv.fs
               /\ schema_metadata_cache' = cleared.meta
               /\ UNCHANGED inserted
               /\ Done(RefreshExcept(sv.msg))
          ELSE /\ files' = sv.fs
               /\ schema_metadata_cache' = SetFlag(cleared.meta, now)
               /\ inserted' = FlagInserted
               /\ Done(RefreshReturn(gen.doc))
       /\ open_connections' = open_connections + GeneratorLeavesOpen(dbUp)
       /\ UNCHANGED <<now, ticks, dbUp, dbTables, dbLastUpdate, savevars, genvars, stepvars>>

\* ---------------------------------------------------------- query_with_cache
\* "raise ValueError(...)" before the try block
QueryInvalid(msg) == [outcome |-> "raised", kind |-> "validation", result |-> msg]
\* "except Exception as e: ...; raise"
QueryExcept_Swallow(msg) == [outcome |-> "ok", kind |-> "error", result |-> ErrorDoc(msg)]
QueryExcept(msg) == [outcome |-> "raised", kind |-> "error", result |-> msg]
QueryReturn(text) == [outcome |-> "ok", kind |-> "rows", result |-> text]

\* the query cache when the except clause is left: the statement that stores
\* the result was not reached and the clause stores nothing
CacheAfterExcept_Stored(c, k, t) ==
    TTLSet(c, k, <<"e">>, t, QueryCacheSize, QUERY_CACHE_TTL)
CacheAfterExcept(c, k, t) == c

QueryWithCache(sql, limit, f) ==
    LET query == FinalQuery(sql, limit)
        cache_key == CacheKey(sql, limit)
        hit == TTLContains(query_cache, cache_key, now)
        got == TTLGet(query_cache, cache_key, now)
        result_json == ExecuteQuery(query, dbTables)
        \* cursor.execute is reached
        executes == ~QueryIsEmpty(sql) /\ QueryIsSelect(sql) /\ ~hit /\ dbUp
        Done(ret, calls, executed, cacheOps) ==
            last' = Called("query", f, ret, calls, executed, cacheOps, sql, limit)
    IN /\ ncalls' = ncalls + 1
       /\ f \in {"none", "exec"}
       /\ f = "exec" => executes
       /\ IF QueryIsEmpty(sql)
          THEN /\ UNCHANGED <<query_cache, inserted>>
               /\ Done(QueryInvalid(<<"e">>), <<>>, <<>>, <<>>)
          ELSE IF ~QueryIsSelect(sql)
          THEN /\ UNCHANGED <<query_cache, inserted>>
               /\ Done(QueryInvalid(<<"s">>), <<>>, <<>>, <<>>)
          ELSE IF hit
          THEN /\ query_cache' = got.cache
               /\ inserted' = {IF r.key = cache_key THEN [r EXCEPT !.used = ncalls + 1] ELSE r :
                                 r \in inserted}
               /\ Done(IF got.raised THEN QueryExcept(<<"k">>) ELSE QueryReturn(got.value),
                       <<>>, <<>>, <<"contains", "get">>)
          ELSE IF ~dbUp
          THEN /\ query_cache' = CacheAfterExcept(query_cache, cache_key, now)
               /\ UNCHANGED inserted
               /\ Done(QueryExcept(<<"c">>), <<"connect">>, <<>>, <<"contains">>)
          ELSE IF f = "exec"
          THEN /\ query_cache' = CacheAfterExcept(query_cache, cache_key, now)
               /\ UNCHANGED inserted
               /\ Done(QueryExcept(<<"q">>), <<"connect">>, query, <<"contains">>)
          ELSE /\ query_cache' = TTLSet(query_cache, cache_key, result_json, now,
                                        QueryCacheSize, QUERY_CACHE_TTL)
               /\ inserted' = {r \in inserted : r.key # cache_key}
                                \cup {[key |-> cache_key, value |-> result_json, at |-> now,
                                        seq |-> ncalls + 1, used |-> ncalls + 1,
                                        query |-> query, limit |-> limit]}
               /\ Done(QueryReturn(result_json), <<"connect">>, query, <<"contains", "set">>)
       /\ open_connections' = open_connections
                               + (IF ~QueryIsEmpty(sql) /\ QueryIsSelect(sql) /\ ~hit
                                  THEN QueryLeavesOpen(dbUp) ELSE 0)
       /\ UNCHANGED <<now, ticks, dbUp, dbTables, dbLastUpdate, files, schema_metadata_cache,
                      savevars, genvars, stepvars>>

\* ------------------------------------ query_with_cache, hit path stepwise
\* "if cache_key in query_cache:" and "return query_cache[cache_key]" are two
\* operations on the cache; the clock moves and other calls insert between
\* them.
QueryCheck(sql, limit) ==
    /\ pending.pc = "idle"
    /\ ~QueryIsEmpty(sql)
    /\ QueryIsSelect(sql)
    /\ TTLContains(query_cache, CacheKey(sql, limit), now)
    /\ pending' = [pc |-> "checked", sql |-> sql, limit |-> limit]
    /\ UNCHANGED <<callvars, savevars, genvars, connvars>>

QueryRead ==
    LET cache_key == CacheKey(pending.sql, pending.limit)
        got == TTLGet(query_cache, cache_key, now)
    IN /\ pending.pc = "checked"
       /\ ncalls' = ncalls + 1
       /\ query_cache' = got.cache
       /\ inserted' = {IF r.key = cache_key THEN [r EXCEPT !.used = ncalls + 1] ELSE r :
                         r \in inserted}
       /\ last' = Called("query", "none",
                         IF got.raised THEN QueryExcept(<<"k">>) ELSE QueryReturn(got.value),
                         <<>>, <<>>, <<"contains", "get">>, pending.sql, pending.limit)
       /\ pending' = NoPending
       /\ UNCHANGED <<now, ticks, dbUp, dbTables, dbLastUpdate, files, schema_metadata_cache,
                      savevars, genvars, connvars>>

\* ------------------------------------- query_mysql (mysql_mcp_server.py)
\* The handler registered as the tool query_mysql: the same two validation
\* checks and the same LIMIT injection as query_with_cache, then a connection
\* and the statement on every call; neither cache is read or written.
QueryMysqlInvalid(msg) == [outcome |-> "raised", kind |-> "validation", result |-> msg]
QueryMysqlExcept(msg) == [outcome |-> "raised", kind |-> "error", result |-> msg]
QueryMysqlReturn(text) == [outcome |-> "ok", kind |-> "rows", result |-> text]

QueryMysql(sql, limit, f) ==
    LET query == FinalQuery(sql, limit)
        Done(ret, calls, executed) ==
            last' = Called("query_mysql", f, ret, calls, executed, <<>>, sql, limit)
    IN /\ ncalls' = ncalls + 1
       /\ f \in {"none", "exec"}
       /\ f = "exec" => (~QueryIsEmpty(sql) /\ QueryIsSelect(sql) /\ dbUp)
       /\ IF QueryIsEmpty(sql)
          THEN Done(QueryMysqlInvalid(<<"e">>), <<>>, <<>>)
          ELSE IF ~QueryIsSelect(sql)
          THEN Done(QueryMysqlInvalid(<<"s">>), <<>>, <<>>)
          ELSE IF ~dbUp
          THEN Done(QueryMysqlExcept(<<"c">>), <<"connect">>, <<>>)
          ELSE IF f = "exec"
          THEN Done(QueryMysqlExcept(<<"q">>), <<"connect">>, query)
          ELSE Done(QueryMysqlReturn(ExecuteQuery(query, dbTables)), <<"connect">>, query)
       \* the handler has no finally clause and calls close() nowhere
       /\ open_connections' = open_connections
                               + (IF ~QueryIsEmpty(sql) /\ QueryIsSelect(sql)
                                  THEN GetDbConnection(dbUp) ELSE 0)
       /\ UNCHANGED <<now, ticks, dbUp, dbTables, dbLastUpdate, files, schema_metadata_cache,
                      query_cache, inserted, savevars, genvars, stepvars>>

\* a client's calls within the budget of a behaviour
GetSchemaCall(f) == ncalls < MaxCalls /\ GetSchema(f)
RefreshCall(f) == ncalls < MaxCalls /\ RefreshSchema(f)
NeedsRefreshCall(f) == ncalls < MaxCalls /\ NeedsRefresh(f)
QueryCall(c, f) == ncalls < MaxQueries /\ QueryWithCache(c[1], c[2], f)
TextCall(sql, limit, f) == ncalls < MaxTextCalls /\ QueryWithCache(sql, limit, f)
TtlQueryCall == ncalls < MaxTtlCalls /\ QueryWithCache(SqlSelect, 5, "none")
TtlSchemaCall == ncalls < MaxTtlCalls /\ GetSchema("none")
EvictCall(c) == ncalls < MaxEvictCalls /\ QueryWithCache(c[1], c[2], "none")
CheckCall(c) == ncalls < MaxEvictCalls /\ QueryCheck(c[1], c[2])
ToolCall(c, f) == ncalls < MaxToolCalls /\ QueryMysql(c[1], c[2], f)

\* ---------------------------------------------------------- specifications
Environment ==
    \/ \E n \in TableCounts : \E tracked \in BOOLEAN : DbMutate(n, tracked)
    \/ DbToggle

\* the schema path
Next ==
    \/ \E d \in SchemaTickSteps : Tick(d)
    \/ Environment
    \/ \E f \in Faults : GetSchemaCall(f)
    \/ \E f \in Faults : RefreshCall(f)

Spec == Init /\ [][Next]_vars

\* get_schema() called again and again by one client while the database
\* goes away and comes back
NextRecover ==
    \/ \E d \in SchemaTickSteps : Tick(d)
    \/ DbToggle
    \/ \E f \in Faults : GetSchemaCall(f)

SpecRecover == Init /\ [][NextRecover]_vars

\* the staleness detector called on its own
NextDetector ==
    \/ \E d \in SchemaTickSteps : Tick(d)
    \/ Environment
    \/ \E f \in Faults : NeedsRefreshCall(f)

SpecDetector == Init /\ [][NextDetector]_vars

\* the query path, started with nothing on disk
InitQuery ==
    /\ Init
    /\ files = [p \in Paths |-> NoFile]
    /\ dbLastUpdate = {}

NextQuery ==
    \/ \E d \in QueryTickSteps : Tick(d)
    \/ \E n \in TableCounts : DbMutate(n, FALSE)
    \/ DbToggle
    \/ \E c \in QueryCalls : \E f \in Faults : QueryCall(c, f)

SpecQuery == InitQuery /\ [][NextQuery]_vars

\* the query path over the text inputs, clock stopped
NextText ==
    \/ DbToggle
    \/ \E sql \in Sqls : \E limit \in Limits : \E f \in Faults : TextCall(sql, limit, f)

SpecText == InitQuery /\ [][NextText]_vars

\* queries and manual refreshes of one client, under the moving clock
NextMixed ==
    \/ \E d \in QueryTickSteps : Tick(d)
    \/ \E c \in QueryCalls : \E f \in Faults : QueryCall(c, f)
    \/ \E f \in Faults : RefreshCall(f)

SpecMixed == InitQuery /\ [][NextMixed]_vars

\* queries and schema reads of one client in any order
NextFrame ==
    \/ \E d \in {QUERY_CACHE_TTL, SCHEMA_CACHE_TTL} : Tick(d)
    \/ DbToggle
    \/ \E c \in QueryCalls : \E f \in Faults : QueryCall(c, f)
    \/ \E f \in Faults : GetSchemaCall(f)

SpecFrame == InitQuery /\ [][NextFrame]_vars

\* one query and the schema read repeated over the lifetime of their entries
NextTtl ==
    \/ \E d \in TtlTickSteps : TtlTick(d)
    \/ TtlQueryCall
    \/ TtlSchemaCall

SpecTtl == InitQuery /\ [][NextTtl]_vars

\* more distinct queries than the cache holds, database up
NextEvict ==
    \/ \E d \in QueryTickSteps : Tick(d)
    \/ \E c \in EvictCalls : EvictCall(c)

SpecEvict == InitQuery /\ [][NextEvict]_vars

\* queries, schema reads and manual refreshes of one client, with more
\* distinct queries than the cache holds
NextCapacity ==
    \/ \E d \in {QUERY_CACHE_TTL, SCHEMA_CACHE_TTL} : Tick(d)
    \/ \E c \in EvictCalls : EvictCall(c)
    \/ TtlSchemaCall
    \/ \E f \in Faults : RefreshCall(f)

SpecCapacity == InitQuery /\ [][NextCapacity]_vars

\* a call on the hit path taken step by step, among the clock and the calls
\* of other clients
NextRace ==
    \/ \E d \in QueryTickSteps : Tick(d)
    \/ \E c \in EvictCalls : EvictCall(c)
    \/ \E c \in EvictCalls : CheckCall(c)
    \/ QueryRead

SpecRace == InitQuery /\ [][NextRace]_vars

\* the tool query_mysql called by a client, under the moving clock
NextTool ==
    \/ \E d \in QueryTickSteps : Tick(d)
    \/ \E n \in TableCounts : DbMutate(n, FALSE)
    \/ DbToggle
    \/ \E c \in QueryCalls : \E f \in Faults : ToolCall(c, f)

SpecTool == InitQuery /\ [][NextTool]_vars

\* ----------------------------------------------- save_json_file, stepwise
\* Callers of get_schema()/refresh_schema() that regenerate: each generates
\* its document, opens file_path.tmp for writing, writes it in buffer-sized
\* pieces, closes it and renames it over file_path.  Files are inodes reached
\* through directory entries; an open handle keeps writing to its inode
\* wherever the directory entries point afterwards.
SaveTempPath_InPlace == SCHEMA_FILE
SaveTempPath == TEMP_FILE

\* what a reader of the schema path gets
TargetFile == IF dir[SCHEMA_FILE] = 0 THEN NoFile ELSE FileOf(inodes[dir[SCHEMA_FILE]])

InUse(i) == (\E p \in DOMAIN dir : dir[p] = i) \/ (\E w \in Writers : wr[w].fd = i)
FreeIno == CHOOSE i \in Inos : ~InUse(i)

\* write(fd, piece) at offset pos: a gap before pos reads as NUL ("_")
WriteAt(content, pos, piece) ==
    LET padded == content \o [i \in 1..(pos - Len(content)) |-> "_"]
    IN SubSeq(padded, 1, pos) \o piece \o SubSeq(padded, pos + Len(piece) + 1, Len(padded))

\* schema_data = generate_database_schema()
StartRegenerate(w) ==
    LET gen == GenerateDatabaseSchema(dbUp, dbTables, now, "none")
        text == JsonDumps(gen.doc)
    IN /\ wr[w].pc \in {"idle", "saved", "failed", "interrupted"}
       /\ wr[w].saves < MaxSaves
       /\ ~gen.raised
       /\ wr' = [wr EXCEPT ![w] = [@ EXCEPT !.pc = "generated", !.text = text,
                                             !.saves = @ + 1]]
       /\ generated' = generated \cup {text}
       /\ UNCHANGED <<dir, inodes, callvars, genvars, stepvars, connvars>>

\* open(temp_file, 'w'): create the file or truncate the one that is there
OpenTemp(w) ==
    LET ino == IF dir[SaveTempPath] = 0 THEN FreeIno ELSE dir[SaveTempPath]
    IN /\ wr[w].pc = "generated"
       /\ dir' = [dir EXCEPT ![SaveTempPath] = ino]
       /\ inodes' = [inodes EXCEPT ![ino] = <<>>]
       /\ wr' = [wr EXCEPT ![w] = [@ EXCEPT !.pc = "open", !.fd = ino, !.pos = 0,
                                             !.before = TargetFile]]
       /\ UNCHANGED <<generated, callvars, genvars, stepvars, connvars>>

\* json.dump(...): one buffer-full reaches the file; the last one at close
WriteChunk(w) ==
    LET text == wr[w].text
        pos == wr[w].pos
        upto == IF pos + ChunkSize < Len(text) THEN pos + ChunkSize ELSE Len(text)
        piece == SubSeq(text, pos + 1, upto)
    IN /\ wr[w].pc = "open"
       /\ inodes' = [inodes EXCEPT ![wr[w].fd] = WriteAt(@, pos, piece)]
       /\ wr' = [wr EXCEPT ![w] =
                    IF upto = Len(text)
                    THEN [@ EXCEPT !.pc = "closed", !.fd = 0, !.pos = upto]
                    ELSE [@ EXCEPT !.pos = upto]]
       /\ UNCHANGED <<dir, generated, callvars, genvars, stepvars, connvars>>

\* Path(temp_file).rename(file_path); FileNotFoundError when the temp path
\* is gone
RenameTemp(w) ==
    /\ wr[w].pc = "closed"
    /\ IF dir[SaveTempPath] = 0
       THEN /\ wr' = [wr EXCEPT ![w] = [@ EXCEPT !.pc = "failed"]]
            /\ UNCHANGED <<dir, inodes>>
       ELSE LET old == dir[SCHEMA_FILE]
                new == dir[SaveTempPath]
                kept == \E v \in Writers : wr[v].fd = old
            IN /\ dir' = [p \in DOMAIN dir |-> IF p = SCHEMA_FILE THEN new ELSE 0]
               /\ inodes' = IF old = 0 \/ old = new \/ kept THEN inodes
                            ELSE [inodes EXCEPT ![old] = <<>>]
               /\ wr' = [wr EXCEPT ![w] = [@ EXCEPT !.pc = "saved"]]
    /\ UNCHANGED <<generated, callvars, genvars, stepvars, connvars>>

\* the caller is stopped (killed, or an exception out of the write) before
\* its rename
Interrupt(w) ==
    /\ wr[w].pc \in {"open", "closed"}
    /\ wr' = [wr EXCEPT ![w] = [@ EXCEPT !.pc = "interrupted", !.fd = 0]]
    /\ UNCHANGED <<dir, inodes, generated, callvars, genvars, stepvars, connvars>>

SaveStep ==
    \/ \E w \in Writers : StartRegenerate(w)
    \/ \E w \in Writers : OpenTemp(w)
    \/ \E w \in Writers : WriteChunk(w)
    \/ \E w \in Writers : RenameTemp(w)
    \/ \E w \in Writers : Interrupt(w)

NextSave ==
    \/ SaveStep
    \/ Tick(1)
    \/ \E n \in TableCounts : DbMutate(n, FALSE)

\* a schema file of an earlier run may be on disk
InitSaveWith(active) ==
    /\ now = StartTime
    /\ ticks = 0
    /\ ncalls = 0
    /\ dbUp = TRUE
    /\ dbTables = 1
    /\ dbLastUpdate = {}
    /\ files = [p \in Paths |-> NoFile]
    /\ schema_metadata_cache = EmptyCache
    /\ query_cache = EmptyCache
    /\ inserted = {}
    /\ last = NoCall
    /\ wr = [w \in Writers |-> IF w \in active THEN [NoWriter EXCEPT !.pc = "idle"]
                                ELSE NoWriter]
    /\ \E before \in InitialSchemaFiles :
          /\ dir = [p \in {SCHEMA_FILE, TEMP_FILE} |->
                       IF p = SCHEMA_FILE /\ before.exists THEN 1 ELSE 0]
          /\ inodes = [i \in Inos |-> IF i = 1 THEN before.data ELSE <<>>]
          /\ generated = IF before.exists THEN {before.data} ELSE {}
    /\ catalog = EmptyCatalog
    /\ generation = GenIdle
    /\ pending = NoPending
    /\ open_connections = 0

\* two callers regenerating at the same time
SpecSave == InitSaveWith(Writers) /\ [][NextSave]_vars

\* one caller at a time
SpecSaveOne == InitSaveWith({1}) /\ [][NextSave]_vars

\* ------------------------------------- generate_database_schema, stepwise
\* The generator connects, enumerates the tables, fetches each table in turn
\* and then builds the relationship map, while the clock moves and other
\* clients change the database between its statements.
TableNames == {"orders", "users", "items"}
FkRows ==
    { [table |-> "orders", COLUMN_NAME |-> "user_id", REFERENCED_TABLE_NAME |-> "users",
       REFERENCED_COLUMN_NAME |-> "id", CONSTRAINT_NAME |-> "fk_user"],
      [table |-> "orders", COLUMN_NAME |-> "item_id", REFERENCED_TABLE_NAME |-> "items",
       REFERENCED_COLUMN_NAME |-> "id", CONSTRAINT_NAME |-> "fk_item"],
      [table |-> "users", COLUMN_NAME |-> "parent_id", REFERENCED_TABLE_NAME |-> "users",
       REFERENCED_COLUMN_NAME |-> "id", CONSTRAINT_NAME |-> "fk_parent"] }

\* cursor.fetchall(): the rows of a result set as a list, in the server's order
RECURSIVE FetchAll(_)
FetchAll(rows) ==
    IF rows = {} THEN <<>>
    ELSE LET r == CHOOSE x \in rows : TRUE IN <<r>> \o FetchAll(rows \ {r})

\* the row the generator keeps of a KEY_COLUMN_USAGE row
FkOf(row) ==
    [COLUMN_NAME |-> row.COLUMN_NAME, REFERENCED_TABLE_NAME |-> row.REFERENCED_TABLE_NAME,
     REFERENCED_COLUMN_NAME |-> row.REFERENCED_COLUMN_NAME,
     CONSTRAINT_NAME |-> row.CONSTRAINT_NAME]

\* schema_data["tables"][table_name] = {...}
TableEntry_Eager(foreign_keys) ==
    [foreign_keys |-> foreign_keys,
     relationships |-> [references |-> foreign_keys, referenced_by |-> foreign_keys]]
TableEntry(foreign_keys) ==
    [foreign_keys |-> foreign_keys,
     relationships |-> [references |-> foreign_keys, referenced_by |-> <<>>]]

\* the inner loop of "Build relationship map" for one table
ReferencedByEntry_Swapped(table_name, fk) ==
    [table |-> fk.REFERENCED_TABLE_NAME, column |-> fk.COLUMN_NAME,
     constraint |-> fk.CONSTRAINT_NAME]
ReferencedByEntry(table_name, fk) ==
    [table |-> table_name, column |-> fk.COLUMN_NAME, constraint |-> fk.CONSTRAINT_NAME]
RECURSIVE AppendReferencedBy_Unchecked(_, _, _)
AppendReferencedBy_Unchecked(tables, table_name, fks) ==
    IF fks = <<>> THEN tables
    ELSE LET fk == Head(fks)
             ref_table == fk.REFERENCED_TABLE_NAME
             known == IF ref_table \in DOMAIN tables THEN tables
                      ELSE (ref_table :> TableEntry(<<>>)) @@ tables
             next == [known EXCEPT ![ref_table].relationships.referenced_by =
                         Append(@, ReferencedByEntry(table_name, fk))]
         IN AppendReferencedBy_Unchecked(next, table_name, Tail(fks))
RECURSIVE AppendReferencedBy(_, _, _)
AppendReferencedBy(tables, table_name, fks) ==
    IF fks = <<>> THEN tables
    ELSE LET fk == Head(fks)
             ref_table == fk.REFERENCED_TABLE_NAME
             next == IF ref_table \in DOMAIN tables
                     THEN [tables EXCEPT ![ref_table].relationships.referenced_by =
                              Append(@, ReferencedByEntry(table_name, fk))]
                     ELSE tables
         IN AppendReferencedBy(next, table_name, Tail(fks))

\* "Build relationship map": the tables in the order they were stored
RECURSIVE BuildRelationships(_, _)
BuildRelationships(tables, order) ==
    IF order = <<>> THEN tables
    ELSE BuildRelationships(
             AppendReferencedBy(tables, Head(order), tables[Head(order)].foreign_keys),
             Tail(order))

GenRunning == generation.pc \in {"connected", "tables", "related"}

\* "generated_at": datetime.now(timezone.utc).isoformat() is evaluated where
\* schema_data is created, right after SHOW TABLES
StampAt_Return(step, stamped, t) == IF step = "return" THEN t ELSE stamped
StampAt(step, stamped, t) == IF step = "enumerate" THEN t ELSE stamped

\* connection = get_db_connection()
GenConnect ==
    /\ generation.pc \in {"idle", "returned", "raised"}
    /\ generation.runs < MaxGenerations
    /\ generation' = [GenIdle EXCEPT !.pc = IF dbUp THEN "connected" ELSE "raised",
                              !.runs = generation.runs + 1]
    /\ open_connections' = open_connections + GetDbConnection(dbUp)
    /\ UNCHANGED <<catalog, callvars, savevars, stepvars>>

\* SHOW TABLES, and schema_data with its metadata
GenEnumerate ==
    /\ generation.pc = "connected"
    /\ generation' = [generation EXCEPT !.pc = "tables",
                          !.order = FetchAll(catalog.tables),
                          !.todo = FetchAll(catalog.tables),
                          !.generated_at = StampAt("enumerate", @, now),
                          !.total_tables = Cardinality(catalog.tables),
                          !.enumerated_at = now]
    /\ UNCHANGED <<catalog, callvars, savevars, stepvars, connvars>>

\* one pass of "for table in tables": the statements on table_name raise when
\* the table is gone
GenFetchTable ==
    /\ generation.pc = "tables"
    /\ generation.todo # <<>>
    /\ LET table_name == Head(generation.todo)
           foreign_keys == FetchAll({FkOf(r) : r \in {x \in catalog.fks : x.table = table_name}})
       IN generation' = IF table_name \in catalog.tables
                 THEN [generation EXCEPT !.todo = Tail(generation.todo),
                                  !.tables = (table_name :> TableEntry(foreign_keys)) @@ @,
                                  !.fetched_at = @ \cup {now}]
                 ELSE [generation EXCEPT !.pc = "raised"]
    /\ open_connections' = IF generation'.pc = "raised"
                           THEN open_connections - GeneratorFinally(1)
                           ELSE open_connections
    /\ UNCHANGED <<catalog, callvars, savevars, stepvars>>

\* the relationship pass, after the last table
GenRelate ==
    /\ generation.pc = "tables"
    /\ generation.todo = <<>>
    /\ generation' = [generation EXCEPT !.pc = "related",
                          !.tables = BuildRelationships(generation.tables, generation.order)]
    /\ UNCHANGED <<catalog, callvars, savevars, stepvars, connvars>>

\* return schema_data
GenReturn ==
    /\ generation.pc = "related"
    /\ generation' = [generation EXCEPT !.pc = "returned",
                          !.generated_at = StampAt("return", @, now)]
    /\ open_connections' = open_connections - GeneratorFinally(1)
    /\ UNCHANGED <<catalog, callvars, savevars, stepvars>>

\* a statement fails (the connection is lost): "except Exception: ... raise"
GenRaise ==
    /\ GenRunning
    /\ ~dbUp
    /\ generation' = [generation EXCEPT !.pc = "raised"]
    /\ open_connections' = open_connections - GeneratorFinally(1)
    /\ UNCHANGED <<catalog, callvars, savevars, stepvars>>

\* statements of other clients
CreateTable(t) ==
    /\ dbUp
    /\ t \notin catalog.tables
    /\ catalog' = [catalog EXCEPT !.tables = @ \cup {t}]
    /\ UNCHANGED <<generation, callvars, savevars, stepvars, connvars>>

DropTable(t) ==
    /\ dbUp
    /\ t \in catalog.tables
    /\ catalog' = [tables |-> catalog.tables \ {t},
                   fks |-> {r \in catalog.fks : r.table # t}]
    /\ UNCHANGED <<generation, callvars, savevars, stepvars, connvars>>

AddForeignKey(r) ==
    /\ dbUp
    /\ r.table \in catalog.tables
    /\ r \notin catalog.fks
    /\ catalog' = [catalog EXCEPT !.fks = @ \cup {r}]
    /\ UNCHANGED <<generation, callvars, savevars, stepvars, connvars>>

NextGen ==
    \/ Tick(1)
    \/ GenConnect
    \/ GenEnumerate
    \/ GenFetchTable
    \/ GenRelate
    \/ GenReturn
    \/ GenRaise
    \/ \E t \in TableNames : CreateTable(t)
    \/ \E t \in TableNames : DropTable(t)
    \/ \E r \in FkRows : AddForeignKey(r)
    \/ DbToggle

SpecGen == InitQuery /\ [][NextGen]_vars

\* ------------------------------------------------------------------ claims
Regenerated == \E i \in 1..Len(last.calls) : last.calls[i] = "generator"
IsErrorDoc(text) == JsonOk(text) /\ JsonGet(text, "e") # {}
IsDocumentAt(f, t) ==
    f.exists /\ JsonOk(f.data) /\ JsonGet(f.data, "g") = {Str(t)}

\* C1: with the flag absent or expired and a persisted document generated at
\* T0 at the schema path, get_schema() regenerates and overwrites the file iff
\* the database's maximum update time is later than T0; otherwise (earlier,
\* equal or NULL) it returns the file contents as they are.  Stated for a
\* deployment with no other schema document on disk.
C1_StalenessRoundTrip ==
    \A T0 \in 0..now :
        ( /\ last.op = "get_schema"
          /\ last.fault = "none"
          /\ last.pre.dbUp
          /\ ~last.pre.flagLive
          /\ IsDocumentAt(last.pre.file, T0)
          /\ ~files[DETECTOR_FILE].exists )
        => IF \E u \in last.pre.dbLastUpdate : u > T0
           THEN Regenerated /\ files[SCHEMA_FILE].data = last.result
           ELSE ~Regenerated /\ last.result = last.pre.file.data

\* C2: a get_schema() call that directly follows a get_schema() call which
\* returned a document (by the fast path, the detector-says-fresh path or
\* regeneration), with nothing changed in between, returns the same bytes and
\* calls neither the detector nor the generator.
C2_Idempotent ==
    [][ ( /\ last.op = "get_schema"
          /\ last.kind = "document"
          /\ last'.op = "get_schema"
          /\ ncalls' = ncalls + 1
          /\ last'.fault = "none" )
        => ( /\ last'.outcome = "ok"
             /\ last'.result = last.result
             /\ last'.calls = <<>> ) ]_vars

\* the second of two consecutive calls, the first of which regenerated
C2_Witness ==
    /\ last.op = "get_schema"
    /\ last.pre.afterDocument
    /\ last.calls = <<>>
    /\ last.result = JsonDumps([generated_at |-> now, total_tables |-> dbTables])

\* C3: a query(sql, limit) call whose entry was inserted by a successful call
\* less than QUERY_CACHE_TTL ago and is still in the cache returns the string
\* that call returned and contacts the database in no way.
C3_CacheHit ==
    [][ (last'.op = "query" /\ ncalls' = ncalls + 1)
        => \A r \in inserted :
              ( /\ r.key = CacheKey(last'.sql, last'.limit)
                /\ now < r.at + QUERY_CACHE_TTL
                /\ r.key \in CacheKeys(query_cache) )
              => ( /\ last'.outcome = "ok"
                   /\ last'.result = r.value
                   /\ last'.calls = <<>>
                   /\ last'.executed = <<>> ) ]_vars

\* a call served from the cache although the database would now answer otherwise
C3_Witness ==
    /\ last.op = "query"
    /\ last.outcome = "ok"
    /\ last.calls = <<>>
    /\ last.result # ExecuteQuery(FinalQuery(last.sql, last.limit), dbTables)

\* sql is empty or blank, or the first word after its leading blanks is not
\* SELECT in any letter case
BeginsWithSelect(sql) ==
    \E k \in 0..Len(sql) :
        /\ \A i \in 1..k : IsSpace(sql[i])
        /\ Len(sql) >= k + Len(SELECT)
        /\ \A j \in 1..Len(SELECT) : UpperChar(sql[k + j]) = SELECT[j]
InvalidSql(sql) == (\A i \in 1..Len(sql) : IsSpace(sql[i])) \/ ~BeginsWithSelect(sql)

\* C4: query(sql, limit) with an empty, blank or non-SELECT sql raises a
\* validation error, opens no connection and neither reads nor writes the
\* query cache, whatever the cache holds.
C4_Validation ==
    [][ (last'.op = "query" /\ ncalls' = ncalls + 1 /\ InvalidSql(last'.sql))
        => ( /\ last'.outcome = "raised"
             /\ last'.kind = "validation"
             /\ last'.calls = <<>>
             /\ last'.executed = <<>>
             /\ last'.cacheOps = <<>>
             /\ query_cache' = query_cache ) ]_vars

\* a rejected call made while the cache holds an entry
C4_Witness ==
    /\ last.op = "query"
    /\ last.kind = "validation"
    /\ last.sql = SqlNotFirst
    /\ query_cache # EmptyCache

\* the word LIMIT occurs somewhere in sql, in any letter case
HasLimitWord(sql) ==
    \E i \in 1..Len(sql) :
        /\ i + Len(LIMIT) - 1 <= Len(sql)
        /\ \A j \in 1..Len(LIMIT) : UpperChar(sql[i + j - 1]) = LIMIT[j]
\* text reads as the decimal numeral of n
IsNumeral(text, n) ==
    IF n < 0
    THEN Len(text) >= 2 /\ text[1] = "-" /\ IsNumber(Tail(text)) /\ ParseInt(Tail(text)) = 0 - n
    ELSE IsNumber(text) /\ ParseInt(text) = n

\* C5: the text query(sql, limit) executes is sql, then " LIMIT ", then the
\* limit, exactly when limit is non-zero and LIMIT occurs nowhere in the
\* upper-cased sql; otherwise it is sql as given.
C5_LimitInjection ==
    (last.op = "query" /\ last.executed # <<>>)
    => IF last.limit # 0 /\ ~HasLimitWord(last.sql)
       THEN /\ Len(last.executed) > Len(last.sql) + 7
            /\ SubSeq(last.executed, 1, Len(last.sql)) = last.sql
            /\ SubSeq(last.executed, Len(last.sql) + 1, Len(last.sql) + 7)
                   = <<" ", "L", "I", "M", "I", "T", " ">>
            /\ IsNumeral(SubSeq(last.executed, Len(last.sql) + 8, Len(last.executed)),
                         last.limit)
       ELSE last.executed = last.sql

\* a lower-case sql executed with LIMIT 10 appended
C5_Witness ==
    /\ last.op = "query"
    /\ last.sql = SqlLower
    /\ last.limit = 10
    /\ last.executed = SqlLower \o <<" ", "L", "I", "M", "I", "T", " ", "1", "0">>

C7_ServeStale ==
    ( /\ last.op = "get_schema"
      /\ last.fault = "none"
      /\ ~last.pre.dbUp
      /\ last.pre.file.exists
      /\ JsonOk(last.pre.file.data) )
    => (last.kind = "document" /\ last.result = last.pre.file.data)

\* C10: a connection failure or a failing statement makes query(sql, limit)
\* raise; what it returns is never an error document.
C10_QueryErrorsPropagate ==
    (last.op = "query")
    => /\ (last.calls # <<>> /\ (~last.pre.dbUp \/ last.fault = "exec"))
          => (last.outcome = "raised" /\ last.kind = "error")
       /\ last.outcome = "ok" => (last.kind = "rows" /\ ~IsErrorDoc(last.result))

\* a failing statement raised to the caller
C10_Witness ==
    /\ last.op = "query"
    /\ last.fault = "exec"
    /\ last.executed # <<>>
    /\ last.outcome = "raised"

\* C8: while callers regenerate and persist at the same time, the schema
\* path holds, at every instant, nothing or one complete document of a single
\* generation.
C8_ReadersSeeWholeDocument ==
    dir[SCHEMA_FILE] # 0 => inodes[dir[SCHEMA_FILE]] \in generated

\* C9: with one caller saving, the schema path holds what it held when the
\* save began until the rename, and the complete new document after it; an
\* interrupted save leaves it as it was.
C9_AtomicPersistence ==
    \A w \in Writers :
        /\ wr[w].pc \in {"open", "closed", "interrupted"} => TargetFile = wr[w].before
        /\ wr[w].pc = "saved" => TargetFile = FileOf(wr[w].text)

\* a save interrupted after part of the new document reached the temp file,
\* with an older document at the schema path
C9_Witness ==
    /\ wr[1].pc = "interrupted"
    /\ wr[1].before.exists
    /\ dir[TEMP_FILE] # 0
    /\ inodes[dir[TEMP_FILE]] # <<>>
    /\ inodes[dir[TEMP_FILE]] # wr[1].text
    /\ TargetFile = wr[1].before

\* C11: refresh() never raises; on success the status document carries the
\* generated_at and total_tables of the document now at the schema path, and a
\* failed connection, generation, write or rename comes back as
\* {status: "error", message}.
IsStatusError(text) ==
    JsonOk(text) /\ JsonGet(text, "s") = {<<"e", "r", "r">>} /\ JsonGet(text, "m") # {}
IsStatusOk(text) == JsonOk(text) /\ JsonGet(text, "s") = {<<"o", "k">>}
C11_RefreshNeverRaises ==
    (last.op = "refresh")
    => /\ last.outcome = "ok"
       /\ last.kind = "status"
          => /\ IsStatusOk(last.result)
             /\ JsonOk(files[SCHEMA_FILE].data)
             /\ JsonGet(last.result, "g") = JsonGet(files[SCHEMA_FILE].data, "g")
             /\ JsonGet(last.result, "n") = JsonGet(files[SCHEMA_FILE].data, "n")
             /\ JsonGet(last.result, "g") = {Str(now)}
             /\ JsonGet(last.result, "n") = {Str(dbTables)}
       /\ (~last.pre.dbUp \/ last.fault \in {"gen", "write", "rename"})
          => (last.kind = "error" /\ IsStatusError(last.result))
       /\ (last.pre.dbUp /\ last.fault = "none") => last.kind = "status"

\* a refresh whose write to the temp file failed, reported as an error status
C11_Witness ==
    /\ last.op = "refresh"
    /\ last.fault = "write"
    /\ last.pre.dbUp
    /\ IsStatusError(last.result)

\* C12: every refresh() calls the generator and never the detector, whether
\* the flag was valid or not; after a successful refresh() the schema path
\* holds the document just generated and the flag is valid.
C12_RefreshUnconditional ==
    (last.op = "refresh")
    => /\ last.calls = <<"generator">>
       /\ last.kind = "status"
          => /\ files[SCHEMA_FILE] =
                   FileOf(JsonDumps([generated_at |-> now, total_tables |-> dbTables]))
             /\ FlagLive

\* a successful refresh made while the flag was valid and an older document
\* was on disk
C12_Witness ==
    /\ last.op = "refresh"
    /\ last.kind = "status"
    /\ last.pre.flagLive
    /\ last.pre.file.exists
    /\ last.pre.file # files[SCHEMA_FILE]

\* C13: refresh(), successful or failed, leaves the query cache as it was:
\* the same entries with the same values and expiry times in the same recency
\* order.
C13_RefreshKeepsQueryCache ==
    [][ (last'.op = "refresh" /\ ncalls' = ncalls + 1)
        => /\ query_cache' = query_cache
           /\ {r \in inserted' : r.key # SchemaFresh} = {r \in inserted : r.key # SchemaFresh} ]_vars

\* a refresh made while the query cache held an entry
C13_Witness ==
    /\ last.op = "refresh"
    /\ last.kind = "status"
    /\ query_cache # EmptyCache
    /\ FlagLive

\* C14: an insertion into a query cache that holds QueryCacheSize unexpired
\* entries removes exactly one of them, the one whose last use (insertion or
\* hit) is oldest, and keeps every other unexpired entry as it was; an
\* insertion into a cache with room removes no unexpired entry.
LiveKeys == {r.key : r \in {x \in inserted : x.key \in CacheKeys(query_cache)
                                              /\ now < x.at + QUERY_CACHE_TTL}}
UsedAt(k) == (CHOOSE r \in inserted : r.key = k).used
EntryOf(c, k) == c[CacheIndex(c, k)]
C14_LruEviction ==
    [][ (last'.op = "query" /\ ncalls' = ncalls + 1 /\ last'.cacheOps = <<"contains", "set">>)
        => LET key == CacheKey(last'.sql, last'.limit)
               Kept(ks) == /\ CacheKeys(query_cache') = ks \cup {key}
                           /\ \A k \in ks : EntryOf(query_cache', k) = EntryOf(query_cache, k)
           IN IF Cardinality(LiveKeys) = QueryCacheSize
              THEN \E victim \in LiveKeys :
                      /\ \A k \in LiveKeys : UsedAt(victim) <= UsedAt(k)
                      /\ Kept(LiveKeys \ {victim})
              ELSE Kept(LiveKeys) ]_vars

\* an insertion has evicted an unexpired entry that was inserted after one
\* still held: the older entry had been used by a hit in between
C14_Witness ==
    /\ last.op = "query"
    /\ last.cacheOps = <<"contains", "set">>
    /\ Len(query_cache) = QueryCacheSize
    /\ \E r1, r2 \in inserted :
          /\ r1.seq < r2.seq
          /\ r1.key \in CacheKeys(query_cache)
          /\ r2.key \notin CacheKeys(query_cache)
          /\ now < r2.at + QUERY_CACHE_TTL

\* C15: an entry inserted at time t that the cache still holds is used at
\* every time before t + ttl and is treated as absent from t + ttl on, hits in
\* between changing nothing: a query is served from the cache before t + 300
\* and executed again from t + 300 on; get_schema() skips the detector before
\* t + 3600 of the flag and consults it from t + 3600 on.
C15_TtlExpiry ==
    [][ (ncalls' = ncalls + 1)
        => /\ last'.op = "query"
              => \A r \in inserted :
                    (r.key = CacheKey(last'.sql, last'.limit) /\ r.key \in CacheKeys(query_cache))
                    => IF now - r.at < QUERY_CACHE_TTL
                       THEN last'.calls = <<>> /\ last'.result = r.value
                       ELSE last'.calls = <<"connect">> /\ last'.executed # <<>>
           /\ last'.op = "get_schema"
              => \A r \in inserted :
                    ( /\ r.key = SchemaFresh
                      /\ r.key \in CacheKeys(schema_metadata_cache)
                      /\ files[SCHEMA_FILE].exists )
                    => IF now - r.at < SCHEMA_CACHE_TTL
                       THEN last'.calls = <<>>
                       ELSE last'.calls # <<>> /\ last'.calls[1] = "detector" ]_vars

\* a hit in the last second of the entry's lifetime
C15_Witness ==
    /\ last.op = "query"
    /\ last.calls = <<>>
    /\ \E r \in inserted :
          /\ r.key = CacheKey(last.sql, last.limit)
          /\ r.used > r.seq
          /\ now = r.at + QUERY_CACHE_TTL - 1

\* C16: a valid query call uses a stored entry iff an unexpired entry in the
\* cache was stored by a call with the same finalized text and the same limit,
\* and its key equals a stored entry's key iff both are equal; the same sql
\* under another limit is executed again, also when the sql carries its own
\* LIMIT and the executed text is the same.
C16_CacheKeyIdentity ==
    [][ (last'.op = "query" /\ ncalls' = ncalls + 1 /\ last'.outcome = "ok")
        => LET Same(r) == /\ r.query = FinalQuery(last'.sql, last'.limit)
                          /\ r.limit = last'.limit
               held == {r \in inserted : r.key \in CacheKeys(query_cache)
                                         /\ now < r.at + QUERY_CACHE_TTL}
           IN /\ (last'.calls = <<>>) <=> (\E r \in held : Same(r))
              /\ \A r \in held : (r.key = CacheKey(last'.sql, last'.limit)) <=> Same(r) ]_vars

\* two entries hold the result of the same executed text: the same sql with
\* its own LIMIT was called under two limits
C16_Witness ==
    /\ last.op = "query"
    /\ last.cacheOps = <<"contains", "set">>
    /\ \E r1, r2 \in inserted :
          /\ r1.key # r2.key
          /\ r1.value = r2.value
          /\ {r1.key, r2.key} \subseteq CacheKeys(query_cache)

\* C17: needs_refresh() never raises, and it returns true when the document
\* it loads does not exist, when that document cannot be loaded, when it has
\* no generated_at or one that does not parse, and when the database cannot
\* be connected to or queried.
DetectorDoc == files[DETECTOR_FILE]
ParsesAsTime(g) ==
    g # <<>> /\ \A i \in 1..Len(g) : g[i] \in {"0", "1", "2", "3", "4", "5", "6", "7", "8", "9"}
C17_DetectorFailsOpen ==
    (last.op = "needs_refresh")
    => /\ last.outcome = "ok"
       /\ last.result \in {BoolText(TRUE), BoolText(FALSE)}
       /\ ( \/ ~last.pre.dbUp
            \/ last.fault = "det"
            \/ ~DetectorDoc.exists
            \/ ~JsonOk(DetectorDoc.data)
            \/ JsonGet(DetectorDoc.data, "g") = {}
            \/ \E g \in JsonGet(DetectorDoc.data, "g") : ~ParsesAsTime(g) )
          => last.result = BoolText(TRUE)

\* the database is reachable and the document on disk is cut short
C17_Witness ==
    /\ last.op = "needs_refresh"
    /\ last.fault = "none"
    /\ last.pre.dbUp
    /\ DetectorDoc.exists
    /\ ~JsonOk(DetectorDoc.data)
    /\ last.result = BoolText(TRUE)

\* C18: with the database reachable and a persisted document generated at T0
\* at the schema path, needs_refresh() returns true iff the database's
\* maximum update time is not NULL and later than T0, and false when it is
\* equal, earlier or NULL.  Stated for a deployment with no other schema
\* document on disk.
C18_DetectorComparison ==
    \A T0 \in 0..now :
        ( /\ last.op = "needs_refresh"
          /\ last.fault = "none"
          /\ last.pre.dbUp
          /\ IsDocumentAt(files[SCHEMA_FILE], T0)
          /\ ~files[DETECTOR_FILE].exists )
        => last.result = BoolText(\E u \in dbLastUpdate : u > T0)

\* C19: when the generator fails (no connection, or a failing statement at
\* any point of the generation), the get_schema() or refresh() that called it
\* reports an error and the schema path holds exactly what it held before the
\* call: the earlier document, or still nothing.
C19_FailedGenerationWritesNothing ==
    ( /\ last.op \in {"get_schema", "refresh"}
      /\ Regenerated
      /\ (~last.pre.dbUp \/ last.fault = "gen") )
    => /\ last.kind = "error"
       /\ files[SCHEMA_FILE] = last.pre.file

\* a statement of the generation failed while an earlier document was on disk
C19_Witness ==
    /\ last.op = "get_schema"
    /\ Regenerated
    /\ last.pre.dbUp
    /\ last.fault = "gen"
    /\ last.pre.file.exists
    /\ files[SCHEMA_FILE] = last.pre.file

\* C20: in a completed document, every foreign key fetched for table T on
\* column c whose referenced table R is among the document's tables is in
\* T.relationships.references, and R.relationships.referenced_by holds the
\* entry (T, c, constraint) once per such foreign-key row; and every
\* referenced_by entry of R names a table T of the document with a foreign key
\* on that column, under that constraint, that references R.
Occurrences(list, x) == Cardinality({i \in 1..Len(list) : list[i] = x})
C20_RelationshipSymmetry ==
    (generation.pc \in {"related", "returned"})
    => LET doc == generation.tables
           Matches(fk, R, e) ==
               /\ fk.REFERENCED_TABLE_NAME = R
               /\ fk.COLUMN_NAME = e.column
               /\ fk.CONSTRAINT_NAME = e.constraint
       IN /\ \A T \in DOMAIN doc : \A i \in 1..Len(doc[T].foreign_keys) :
                LET fk == doc[T].foreign_keys[i]
                    R == fk.REFERENCED_TABLE_NAME
                    e == [table |-> T, column |-> fk.COLUMN_NAME,
                          constraint |-> fk.CONSTRAINT_NAME]
                IN R \in DOMAIN doc
                   => /\ Occurrences(doc[T].relationships.references, fk) >= 1
                      /\ Occurrences(doc[R].relationships.referenced_by, e)
                           = Cardinality({j \in 1..Len(doc[T].foreign_keys) :
                                             Matches(doc[T].foreign_keys[j], R, e)})
          /\ \A R \in DOMAIN doc : \A i \in 1..Len(doc[R].relationships.referenced_by) :
                LET e == doc[R].relationships.referenced_by[i]
                IN /\ e.table \in DOMAIN doc
                   /\ \E j \in 1..Len(doc[e.table].foreign_keys) :
                         Matches(doc[e.table].foreign_keys[j], R, e)

\* a returned document in which users is referenced by orders.user_id and by
\* its own parent_id
C20_Witness ==
    /\ generation.pc = "returned"
    /\ {"orders", "users"} \subseteq DOMAIN generation.tables
    /\ Len(generation.tables["users"].relationships.referenced_by) = 2
    /\ generation.tables["orders"].relationships.referenced_by = <<>>

\* the flag's last insertion is less than SCHEMA_CACHE_TTL old
FlagSetRecently ==
    \E r \in inserted : r.key = SchemaFresh /\ now < r.at + SCHEMA_CACHE_TTL
SchemaCallDone == ncalls' = ncalls + 1 /\ last'.op \in {"get_schema", "refresh"}
\* the flag stops being valid by the clock reaching its expiry or by a
\* refresh() that cleared it and did not set it again
FlagLeavesByExpiryOrClear ==
    (FlagLive /\ ~FlagLive')
    => \/ ncalls' = ncalls /\ now' > now /\ ~FlagSetRecently'
       \/ SchemaCallDone /\ last'.op = "refresh" /\ last'.kind = "error"
\* a get_schema() or refresh() that regenerated and persisted ends with the
\* flag valid
RegenerationSetsFlag ==
    (SchemaCallDone /\ Regenerated' /\ last'.kind \in {"document", "status"}) => FlagLive'

\* C21 as stated: the flag is absent at start; it becomes valid only in a
\* get_schema() or refresh() that ends successfully; it stops being valid only
\* SCHEMA_CACHE_TTL after it was set or by refresh()'s clear; a successful
\* regeneration makes it valid.
C21_AsStated ==
    /\ ~FlagLive
    /\ [][ /\ (~FlagLive /\ FlagLive')
              => SchemaCallDone /\ last'.kind \in {"document", "status"}
           /\ FlagLive' => FlagSetRecently'
           /\ FlagLeavesByExpiryOrClear
           /\ RegenerationSetsFlag ]_vars

\* C21: the flag is absent at start; it becomes valid only in a get_schema()
\* in which the detector answered "fresh" (whether or not the read of the file
\* that follows succeeds) or in a get_schema() or refresh() that regenerated
\* and persisted; it stops being valid only SCHEMA_CACHE_TTL after it was set
\* or by refresh()'s clear; a successful regeneration makes it valid.
C21_FreshnessStates ==
    /\ ~FlagLive
    /\ [][ /\ (~FlagLive /\ FlagLive')
              => /\ SchemaCallDone
                 /\ \/ last'.kind \in {"document", "status"}
                    \/ /\ last'.op = "get_schema"
                       /\ last'.calls = <<"detector">>
                       /\ last'.fault = "read"
           /\ FlagLive' => FlagSetRecently'
           /\ FlagLeavesByExpiryOrClear
           /\ RegenerationSetsFlag ]_vars

\* the flag set by a regeneration at start has expired and the next
\* get_schema() has regenerated and set it again
C21_Witness ==
    /\ last.op = "get_schema"
    /\ ticks = 1
    /\ ~last.pre.flagLive
    /\ IsDocumentAt(last.pre.file, StartTime)
    /\ Regenerated
    /\ last.kind = "document"
    /\ FlagLive

\* C22: a query_mysql call that directly repeats a successful query_mysql call
\* with the same query and limit, at the same time and on the same database,
\* executes nothing against the database and returns the same text.
C22_ToolServesFromCache ==
    [][ ( /\ last.op = "query_mysql"
          /\ last.outcome = "ok"
          /\ last'.op = "query_mysql"
          /\ ncalls' = ncalls + 1
          /\ last'.sql = last.sql
          /\ last'.limit = last.limit )
        => ( /\ last'.calls = <<>>
             /\ last'.executed = <<>>
             /\ last'.result = last.result ) ]_vars

\* C23: a get_schema() that finds the flag valid and the schema file present
\* calls neither the detector nor the generator, leaves the file and the flag
\* as they are and, unless the read itself fails, returns the file's contents
\* as they are, whatever has happened to the database since the flag was set.
C23_FastPath ==
    (last.op = "get_schema" /\ last.pre.flagLive /\ last.pre.file.exists)
    => /\ last.calls = <<>>
       /\ files[SCHEMA_FILE] = last.pre.file
       /\ FlagLive
       /\ last.fault # "read" => (last.kind = "document" /\ last.result = last.pre.file.data)

\* served by the fast path although the database was changed after the flag
\* was set: the tables differ from the document's and the update time is
\* later than the flag
C23_Witness ==
    /\ last.op = "get_schema"
    /\ last.pre.flagLive
    /\ last.calls = <<>>
    /\ last.kind = "document"
    /\ JsonGet(last.result, "n") # {Str(dbTables)}
    /\ \E u \in dbLastUpdate : \E r \in inserted :
          /\ r.key = SchemaFresh
          /\ u > r.at
          /\ \A g \in JsonGet(last.result, "g") : u > ParseInt(g)

\* C24 as stated: in a returned document generated_at is not earlier than the
\* instant of any metadata fetch made during that generation.
C24_AsStated ==
    (generation.pc = "returned")
    => /\ generation.enumerated_at <= generation.generated_at
       /\ \A t \in generation.fetched_at : t <= generation.generated_at

\* C24: generated_at is taken when the table list has been enumerated and
\* before any table is fetched: it is the instant of the enumeration and is
\* not later than the instant of any per-table fetch of that generation, and
\* neither the fetches nor the relationship pass change it.
C24_StampedAtEnumeration ==
    (generation.pc \in {"tables", "related", "returned"})
    => /\ generation.generated_at = generation.enumerated_at
       /\ \A t \in generation.fetched_at : generation.generated_at <= t

\* a returned document one of whose tables was fetched after the stamp
C24_Witness ==
    /\ generation.pc = "returned"
    /\ \E t \in generation.fetched_at : t > generation.generated_at

\* the tables SHOW TABLES returned to this generation
Enumerated == {generation.order[i] : i \in 1..Len(generation.order)}
\* the foreign keys of the document's table T whose referenced table was not
\* enumerated
DanglingFks(T) ==
    {generation.tables[T].foreign_keys[i] : i \in
        {j \in 1..Len(generation.tables[T].foreign_keys) :
            generation.tables[T].foreign_keys[j].REFERENCED_TABLE_NAME \notin Enumerated}}

\* C25: the relationship pass of a generation that fetched every enumerated
\* table completes, whatever the foreign keys reference; the document holds
\* the enumerated tables and no other; a foreign key of table T whose
\* referenced table was not enumerated is in T.foreign_keys and in
\* T.relationships.references, and no table's referenced_by holds an entry
\* for it.
C25_DanglingReferences ==
    /\ [](generation.pc \in {"related", "returned"}
          => /\ DOMAIN generation.tables = Enumerated
             /\ \A T \in DOMAIN generation.tables : \A fk \in DanglingFks(T) :
                   /\ Occurrences(generation.tables[T].relationships.references, fk) >= 1
                   /\ \A R \in DOMAIN generation.tables :
                         Occurrences(generation.tables[R].relationships.referenced_by,
                                     [table |-> T, column |-> fk.COLUMN_NAME,
                                      constraint |-> fk.CONSTRAINT_NAME]) = 0)
    /\ [][ (generation.pc = "tables" /\ generation.todo = <<>> /\ dbUp
            /\ generation' # generation)
           => generation'.pc = "related" ]_vars

\* a returned document of orders alone, whose two foreign keys reference
\* tables that were not enumerated
C25_Witness ==
    /\ generation.pc = "returned"
    /\ Enumerated = {"orders"}
    /\ Cardinality(DanglingFks("orders")) = 2
    /\ generation.tables["orders"].relationships.referenced_by = <<>>

\* C26: while a generation has enumerated tables left to fetch, and until its
\* relationship pass runs after the last one, the referenced_by list of every
\* table stored so far is empty; this also holds of what a generation that
\* failed at a fetch leaves behind.
C26_ReferencedByEmptyUntilPass ==
    (generation.todo # <<>> \/ generation.pc \in {"connected", "tables"})
    => \A T \in DOMAIN generation.tables :
          generation.tables[T].relationships.referenced_by = <<>>

\* two tables are stored, one with a foreign key on the other, and a third is
\* still to be fetched
C26_Witness ==
    /\ generation.pc = "tables"
    /\ generation.todo # <<>>
    /\ \E T, R \in DOMAIN generation.tables :
          /\ T # R
          /\ \E i \in 1..Len(generation.tables[T].foreign_keys) :
                generation.tables[T].foreign_keys[i].REFERENCED_TABLE_NAME = R
          /\ generation.tables[R].relationships.referenced_by = <<>>

\* C27: after any sequence of query, get_schema and refresh calls the query
\* cache stores at most QueryCacheSize entries, no key twice, and the metadata
\* cache stores at most one entry, under the key schema_fresh.
C27_CacheBounds ==
    /\ Len(query_cache) <= QueryCacheSize
    /\ Cardinality(CacheKeys(query_cache)) = Len(query_cache)
    /\ Len(schema_metadata_cache) <= SchemaCacheSize
    /\ CacheKeys(schema_metadata_cache) \subseteq {SchemaFresh}

\* both caches are full and the query cache has dropped an unexpired entry to
\* stay within its size
C27_Witness ==
    /\ Len(query_cache) = QueryCacheSize
    /\ Len(schema_metadata_cache) = SchemaCacheSize
    /\ \E r \in inserted :
          /\ r.key # SchemaFresh
          /\ r.key \notin CacheKeys(query_cache)
          /\ now < r.at + QUERY_CACHE_TTL

\* C28: a query call that found its key in the query cache returns the cached
\* rows; its read never fails, whatever the clock and the insertions of other
\* calls did between its presence check and its read.
C28_HitPathNeverFails ==
    (last.op = "query" /\ last.cacheOps = <<"contains", "get">>)
    => (last.outcome = "ok" /\ last.kind = "rows")

\* C29: when two callers regenerate and persist at the same time on a healthy
\* database, no caller's save fails, and once both have saved the schema path
\* holds the complete document of one of them.
C29_ConcurrentSavesSucceed ==
    /\ \A w \in Writers : wr[w].pc # "failed"
    /\ (\A w \in Writers : wr[w].pc = "saved")
       => \E w \in Writers : TargetFile = FileOf(wr[w].text)

\* C30: a get_schema() or refresh() whose generation or persistence failed
\* has not written the flag: get_schema() leaves the metadata cache as it
\* was and refresh() leaves it empty; the flag is written only by a
\* get_schema() whose detector answered "fresh" or by a call that has
\* persisted the document it generated; and the get_schema() that follows a
\* failed refresh() finds no valid flag and consults the detector or the
\* generator.
C30_NoFlagOnFailure ==
    [][ /\ (SchemaCallDone /\ Regenerated' /\ last'.kind = "error")
           => schema_metadata_cache' =
                 IF last'.op = "refresh" THEN EmptyCache ELSE schema_metadata_cache
        /\ (schema_metadata_cache' # schema_metadata_cache
            /\ schema_metadata_cache' # EmptyCache)
           => /\ SchemaCallDone
              /\ \/ last'.op = "get_schema" /\ last'.calls = <<"detector">>
                 \/ /\ Regenerated'
                    /\ last'.kind \in {"document", "status"}
                    /\ IsDocumentAt(files'[SCHEMA_FILE], now)
        /\ (last.op = "refresh" /\ last.kind = "error" /\ SchemaCallDone
            /\ last'.op = "get_schema")
           => (~last'.pre.flagLive /\ last'.calls # <<>>) ]_vars

\* a refresh whose rename failed, made while the flag was valid: the flag is
\* gone and the earlier document is still at the schema path
C30_Witness ==
    /\ last.op = "refresh"
    /\ last.fault = "rename"
    /\ last.kind = "error"
    /\ last.pre.flagLive
    /\ schema_metadata_cache = EmptyCache
    /\ files[SCHEMA_FILE] = last.pre.file

QueryCallDone == ncalls' = ncalls + 1 /\ last'.op = "query"

\* C31: a query call that raises (validation, connection or execution
\* failure) leaves the query cache as it was, entry for entry; after it the
\* cache holds no unexpired entry under its key; and an identical call that
\* directly follows it and succeeds has executed its text against the
\* database.
C31_FailedQueryLeavesCache ==
    /\ [][ (QueryCallDone /\ last'.outcome = "raised")
           => (query_cache' = query_cache /\ inserted' = inserted) ]_vars
    /\ []( (last.op = "query" /\ last.outcome = "raised")
           => \A r \in inserted :
                 ( /\ r.key = CacheKey(last.sql, last.limit)
                   /\ r.key \in CacheKeys(query_cache) )
                 => now >= r.at + QUERY_CACHE_TTL )
    /\ [][ ( /\ last.op = "query"
             /\ last.outcome = "raised"
             /\ QueryCallDone
             /\ last'.sql = last.sql
             /\ last'.limit = last.limit
             /\ last'.outcome = "ok" )
           => ( /\ last'.calls = <<"connect">>
                /\ last'.executed = FinalQuery(last'.sql, last'.limit)
                /\ last'.cacheOps = <<"contains", "set">> ) ]_vars

\* a statement failed for a key whose expired entry the cache still stores
\* beside another entry: both are as they were
C31_Witness ==
    /\ last.op = "query"
    /\ last.fault = "exec"
    /\ last.outcome = "raised"
    /\ Len(query_cache) = 2
    /\ \E r \in inserted :
          /\ r.key = CacheKey(last.sql, last.limit)
          /\ r.key \in CacheKeys(query_cache)
          /\ now >= r.at + QUERY_CACHE_TTL

IsSchemaDoc(text) == JsonOk(text) /\ JsonGet(text, "g") # {} /\ JsonGet(text, "e") = {}

\* C32: what the schema path holds is always a schema document and never an
\* error document; no cache entry holds an error document; a get_schema() that
\* returns an error document leaves the schema file as it was; and every
\* get_schema() made with the database reachable and nothing else failing
\* returns a schema document, whatever the calls before it returned.
C32_ErrorsNotSticky ==
    /\ []( /\ files[SCHEMA_FILE].exists => IsSchemaDoc(files[SCHEMA_FILE].data)
           /\ \A i \in 1..Len(schema_metadata_cache) :
                 schema_metadata_cache[i].value = FlagValue
           /\ \A i \in 1..Len(query_cache) : ~IsErrorDoc(query_cache[i].value) )
    /\ [][ (ncalls' = ncalls + 1 /\ last'.op = "get_schema")
           => /\ last'.kind = "error" => files'[SCHEMA_FILE] = files[SCHEMA_FILE]
              /\ (dbUp /\ last'.fault = "none")
                 => (last'.kind = "document" /\ IsSchemaDoc(last'.result)) ]_vars

\* the second get_schema() of a run has generated and returned a document
\* with the database reachable, after the first one failed at generation and
\* left nothing on disk
C32_Witness ==
    /\ ncalls = 2
    /\ last.op = "get_schema"
    /\ last.kind = "document"
    /\ last.pre.dbUp
    /\ last.pre.file = NoFile
    /\ files[TEMP_FILE] = NoFile
    /\ IsSchemaDoc(last.result)
    /\ files[SCHEMA_FILE] = FileOf(last.result)

QueryRecords(S) == {r \in S : r.key # SchemaFresh}

\* C33: a query call, returning a result or raising, leaves the metadata
\* cache, the liveness of the flag and every file as they were; a get_schema()
\* call, returning a document or an error document, leaves the query cache and
\* the history of its insertions as they were.
C33_PathsDisjoint ==
    [][ /\ QueryCallDone
           => /\ schema_metadata_cache' = schema_metadata_cache
              /\ FlagLive' = FlagLive
              /\ files' = files
              /\ inserted' \ QueryRecords(inserted') = inserted \ QueryRecords(inserted)
        /\ (ncalls' = ncalls + 1 /\ last'.op = "get_schema")
           => /\ query_cache' = query_cache
              /\ QueryRecords(inserted') = QueryRecords(inserted) ]_vars

\* a query has failed while the flag was live and the schema file on disk, and
\* before it a get_schema() ran while the query cache held an entry
C33_Witness ==
    /\ last.op = "query"
    /\ last.outcome = "raised"
    /\ FlagLive
    /\ files[SCHEMA_FILE].exists
    /\ Len(query_cache) > 0
    /\ \E r \in QueryRecords(inserted) : \E g \in inserted \ QueryRecords(inserted) :
          r.seq < g.seq

Connected == \E i \in 1..Len(last.calls) : last.calls[i] = "connect"
ServedFromCache ==
    /\ last.op = "query"
    /\ last.outcome = "ok"
    /\ \E i \in 1..Len(last.cacheOps) : last.cacheOps[i] = "get"

\* C34: between the calls of query, get_schema (which runs the detector and
\* the generator) no connection is open, whether the calls returned or
\* raised; no call changes the number of open connections; and a query served
\* from the cache has not called get_db_connection.
C34_ConnectionsClosed ==
    /\ [](open_connections = 0)
    /\ [](ServedFromCache => ~Connected)
    /\ [][ncalls' = ncalls + 1 => open_connections' = open_connections]_vars

\* a query has connected, its statement has failed, the call has raised, and
\* no connection is open
C34_Witness ==
    /\ last.op = "query"
    /\ last.fault = "exec"
    /\ last.outcome = "raised"
    /\ last.pre.dbUp
    /\ Connected
    /\ open_connections = 0

====
